---- MODULE Spec2Model ----
(* A model of the Chord node of AlexwellChen/chord.                        *)
(*                                                                         *)
(* The node operations (NewNode, createChord, joinChord, stabilize,        *)
(* notify, checkPredecessor, fixFingers, findSuccessor,                    *)
(* closePrecedingNode, find) are read from src/Lab2/Node/tools.go; the     *)
(* client entry point ClientLookUp, the request/reply transport ChordCall  *)
(* and the start-up sequence are read from src/utils/tools.go and          *)
(* src/src/main.go.                                                        *)
(*                                                                         *)
(* SHA-1 values are 160-bit integers.  Only their order and their residue  *)
(* modulo 2^m are ever used by the program, so a hash is represented by a  *)
(* number below 4 * 2^m that has the same order and the same residue;      *)
(* "raw" always means such an unreduced hash.                              *)
EXTENDS Integers, Naturals, Sequences, FiniteSets, TLC

(* ------------------------------------------------------------------ *)
(* Program constants                                                   *)
(* ------------------------------------------------------------------ *)
fingerTableSize == 6
m == 6
hashMod == 2 ^ m
maxSteps == 10

(* ------------------------------------------------------------------ *)
(* Bounds of the model                                                 *)
(* ------------------------------------------------------------------ *)
\* args.Successors (-r): length of every node's successor list
SuccLen == 2
\* fixFingers executions of one node that may be in flight together
MaxFF == 2
\* nodes the environment may kill
MaxKills == 1
\* fixFingers executions started in one run of the finger-table model
MaxFFRuns == 2
\* fixFingers executions started in one run of the routing model
RouteFFRuns == 1
\* client lookups started in one run of the routing model
MaxLookups == 1
\* longest successor list (-r) when the processes differ in it
MaxSuccLen == 3
\* fixFingers executions started one after the other in one run
MaxSweeps == 3
\* stabilize executions of one node that may be in flight together
MaxStab == 2

Nodes == {"A", "B", "C"}
NoAddr == ""
FindFailed == "-1"
Addrs == Nodes \cup {NoAddr}

\* raw hashes the node names may have.  In the first profile the raw order
\* (A < B < C) is also the order of the residues mod 2^m (10, 40, 50); in
\* the second the residues are 10, 40, 20, so C lies between A and B on
\* the ring of identifiers but after B in the raw order.
HashProfiles ==
    { [n \in Nodes |-> CASE n = "A" -> 10 [] n = "B" -> 40 [] OTHER -> 2 * hashMod + 50],
      [n \in Nodes |-> CASE n = "A" -> 10 [] n = "B" -> 40 [] OTHER -> hashMod + 20] }
\* raw SHA-1 of the empty string (da39...0709), residue 9
EmptyHash == 3 * hashMod + 9
\* raw hashes of the keys a client looks up; residues 30 and 45
KeyHashes == {30, 2 * hashMod + 45}

VARIABLES
    rawHash,      \* [Nodes -> raw hash of the node's Name]; fixed at start
    status,       \* "off" (constructed) | "new" (listening) | "up" (in a ring,
                  \* tickers running) | "dead" (killed) | "panic" (crashed)
    Predecessor,  \* node.Predecessor
    Successors,   \* node.Successors
    FingerTable,  \* node.FingerTable: 0..m-1 -> [Id: bytes, Address]
    next,         \* node.next
    ff,           \* fixFingers executions in flight: [Nodes -> [1..MaxFF -> rec]]
    lk,           \* the client lookup in progress (find)
    kills,        \* number of nodes killed so far
    members,      \* the processes that are started in this run
    ffBudget,     \* fixFingers executions that may still be started
    lkBudget,     \* client lookups that may still be started
    exec,         \* [Nodes -> [Tasks -> "on" | "stopped"]]: whether the loop of
                  \* the ScheduledExecutor of a task still runs
    cp,           \* [Nodes -> rec]: the checkPredecessor execution of a node
                  \* that has dialled and not yet acted on the outcome
    st,           \* [Nodes -> [1..MaxStab -> rec]]: the stabilize executions
                  \* that wait for, or hold, the reply of GetSuccessorListRPC
    srv,          \* [Nodes -> rec]: the RPC handler of a node that is between
                  \* two of its outbound calls
    args,         \* the arguments of a direct call of between; fixed at start
    last          \* what the last step observed, when it ran a handler the
                  \* properties below speak about (NoLast otherwise)

vars == <<rawHash, status, Predecessor, Successors, FingerTable, next, ff, lk,
          kills, members, ffBudget, lkBudget, exec, cp, st, srv, args, last>>

\* the parameters of a run; no step changes them
fixed == <<rawHash, members, args>>

(* ------------------------------------------------------------------ *)
(* Identifier arithmetic                                               *)
(* ------------------------------------------------------------------ *)
\* big.Int.Bytes(): big-endian magnitude without leading zero bytes
BytesOf(v) ==
    IF v = 0 THEN << >>
    ELSE IF v < 256 THEN << v >>
    ELSE << v \div 256, v % 256 >>

\* big.Int.SetBytes()
SetBytes(b) ==
    IF Len(b) = 0 THEN 0
    ELSE IF Len(b) = 1 THEN b[1]
    ELSE b[1] * 256 + b[2]

\* strHash(name); a node's Name is its address
strHash(name) == IF name = NoAddr THEN EmptyHash ELSE rawHash[name]

\* node.Identifier
Identifier(n) == rawHash[n] % hashMod

\* a between that has no wrapping branch
betweenNoWrap(start, elt, end, inclusive) ==
    (start < elt /\ elt < end) \/ (inclusive /\ elt = end)

\* a between whose wrapping branch ignores the inclusive flag
betweenStrictWrap(start, elt, end, inclusive) ==
    IF end > start
    THEN (start < elt /\ elt < end) \/ (inclusive /\ elt = end)
    ELSE start < elt \/ elt < end

\* a between whose arc is closed at start
betweenFromStart(start, elt, end, inclusive) ==
    IF end > start
    THEN (start <= elt /\ elt < end) \/ (inclusive /\ elt = end)
    ELSE start <= elt \/ elt < end \/ (inclusive /\ elt = end)

between(start, elt, end, inclusive) ==
    IF end > start
    THEN (start < elt /\ elt < end) \/ (inclusive /\ elt = end)
    ELSE start < elt \/ elt < end \/ (inclusive /\ elt = end)

\* node.fingerEntry(i) = (n + 2^i) mod 2^m
fingerEntry(n, i) == (Identifier(n) + 2 ^ i) % hashMod

(* ------------------------------------------------------------------ *)
(* Transport                                                           *)
(* ------------------------------------------------------------------ *)
\* ChordCall reaches its target: the address is well formed and a process
\* is listening there
CallOK(a) == a \in Nodes /\ status[a] \in {"new", "up"}

\* GetNameRPC: the name the caller ends up with ("" when the call failed)
GetName(a) == IF CallOK(a) THEN a ELSE NoAddr

(* ------------------------------------------------------------------ *)
(* Construction                                                        *)
(* ------------------------------------------------------------------ *)
initFingerTable(n) ==
    [i \in 0 .. fingerTableSize - 1 |->
        [Id |-> BytesOf(fingerEntry(n, i)), Address |-> n]]

initSuccessors == [i \in 1 .. SuccLen |-> NoAddr]

IdleFF == [pc |-> "idle", id |-> 0, res |-> NoAddr]
IdleLk == [pc |-> "idle", start |-> NoAddr, id |-> 0, nextNode |-> NoAddr,
           i |-> 0, found |-> FALSE, result |-> NoAddr]
NoLast == [op |-> "none", node |-> NoAddr, arg |-> NoAddr, id |-> 0,
           pre |-> NoAddr, found |-> FALSE, addr |-> NoAddr,
           wfound |-> FALSE, waddr |-> NoAddr, ok |-> TRUE,
           again |-> FALSE, sent |-> FALSE, callErr |-> FALSE,
           replyErr |-> FALSE]

IdleSt == [pc |-> "idle", target |-> NoAddr, err |-> FALSE, list |-> << >>]
IdleSrv == [pc |-> "idle", from |-> NoAddr, id |-> 0, name |-> NoAddr]
IdleCP == [pc |-> "idle", pred |-> NoAddr, err |-> FALSE]

\* the periodic tasks, one ScheduledExecutor each
Tasks == {"stabilize", "fixFingers", "checkPredecessor"}

\* no direct call of between is made
NoArgs == [start |-> 0, elt |-> 0, end |-> 0, inclusive |-> FALSE]

InitNodes ==
    /\ rawHash \in HashProfiles
    /\ status = [n \in Nodes |-> "off"]
    /\ Predecessor = [n \in Nodes |-> NoAddr]
    /\ Successors = [n \in Nodes |-> initSuccessors]
    /\ FingerTable = [n \in Nodes |-> initFingerTable(n)]
    /\ next = [n \in Nodes |-> -1]
    /\ ff = [n \in Nodes |-> [t \in 1 .. MaxFF |-> IdleFF]]
    /\ lk = IdleLk
    /\ kills = 0
    /\ exec = [n \in Nodes |-> [e \in Tasks |-> "on"]]
    /\ cp = [n \in Nodes |-> IdleCP]
    /\ st = [n \in Nodes |-> [t \in 1 .. MaxStab |-> IdleSt]]
    /\ srv = [n \in Nodes |-> IdleSrv]
    /\ last = NoLast

\* routing: two processes, one fixFingers execution, one client lookup
Init ==
    /\ InitNodes
    /\ args = NoArgs
    /\ members = {"A", "B"}
    /\ ffBudget = RouteFFRuns
    /\ lkBudget = MaxLookups

\* ring maintenance among three processes
InitRing ==
    /\ InitNodes
    /\ args = NoArgs
    /\ members = Nodes
    /\ ffBudget = 0
    /\ lkBudget = 0

\* ring maintenance among two processes
InitTwo ==
    /\ InitNodes
    /\ args = NoArgs
    /\ members = {"A", "B"}
    /\ ffBudget = 0
    /\ lkBudget = 0

\* finger tables: two processes, overlapping fixFingers executions
InitFingers ==
    /\ InitNodes
    /\ args = NoArgs
    /\ members = {"A", "B"}
    /\ ffBudget = MaxFFRuns
    /\ lkBudget = 0

\* finger tables: two processes, fixFingers executions one after the other
InitSweep ==
    /\ InitNodes
    /\ args = NoArgs
    /\ members = {"A", "B"}
    /\ ffBudget = MaxSweeps
    /\ lkBudget = 0

\* identifiers on which closePrecedingNode is called directly: those of the
\* three nodes, a neighbour on each side of A's, and one between B and C
ProbeIds == {9, 10, 11, 20, 40, 45, 50}

\* routing state of three processes, built by joins and one fixFingers
\* execution per run
InitClosest ==
    /\ InitNodes
    /\ args = NoArgs
    /\ members = Nodes
    /\ ffBudget = RouteFFRuns
    /\ lkBudget = 0

\* Successors and Predecessor once x has run createChord, y has joined
\* through x and then z through w (w is x or y), all seeds being reachable
ChainSuccessors(x, y, z, w) ==
    [n \in Nodes |-> [initSuccessors EXCEPT
                         ![1] = IF n = x THEN x ELSE IF n = y THEN x ELSE w]]

ChainPredecessor(x, y, z, w) ==
    [n \in Nodes |-> IF n = x THEN (IF w = x THEN z ELSE y)
                     ELSE IF n = y /\ w = y THEN z
                     ELSE NoAddr]

\* recovery: three processes that have formed a ring, one after the other
InitChain ==
    /\ rawHash \in HashProfiles
    /\ args = NoArgs
    /\ members = Nodes
    /\ ffBudget = 0
    /\ lkBudget = 0
    /\ status = [n \in Nodes |-> "up"]
    /\ \E x \in Nodes : \E y \in Nodes \ {x} : \E z \in Nodes \ {x, y} :
          \E w \in {x, y} :
             /\ Successors = ChainSuccessors(x, y, z, w)
             /\ Predecessor = ChainPredecessor(x, y, z, w)
    /\ FingerTable = [n \in Nodes |-> initFingerTable(n)]
    /\ next = [n \in Nodes |-> -1]
    /\ ff = [n \in Nodes |-> [t \in 1 .. MaxFF |-> IdleFF]]
    /\ lk = IdleLk
    /\ kills = 0
    /\ exec = [n \in Nodes |-> [e \in Tasks |-> "on"]]
    /\ cp = [n \in Nodes |-> IdleCP]
    /\ st = [n \in Nodes |-> [t \in 1 .. MaxStab |-> IdleSt]]
    /\ srv = [n \in Nodes |-> IdleSrv]
    /\ last = NoLast

\* ring maintenance among two processes started with -r values of their own
InitMixed ==
    /\ rawHash \in HashProfiles
    /\ args = NoArgs
    /\ members = {"A", "B"}
    /\ ffBudget = 0
    /\ lkBudget = 0
    /\ status = [n \in Nodes |-> "off"]
    /\ Predecessor = [n \in Nodes |-> NoAddr]
    /\ \E r \in [members -> 1 .. MaxSuccLen] :
          Successors = [n \in Nodes |->
                          IF n \in members THEN [i \in 1 .. r[n] |-> NoAddr]
                          ELSE initSuccessors]
    /\ FingerTable = [n \in Nodes |-> initFingerTable(n)]
    /\ next = [n \in Nodes |-> -1]
    /\ ff = [n \in Nodes |-> [t \in 1 .. MaxFF |-> IdleFF]]
    /\ lk = IdleLk
    /\ kills = 0
    /\ exec = [n \in Nodes |-> [e \in Tasks |-> "on"]]
    /\ cp = [n \in Nodes |-> IdleCP]
    /\ st = [n \in Nodes |-> [t \in 1 .. MaxStab |-> IdleSt]]
    /\ srv = [n \in Nodes |-> IdleSrv]
    /\ last = NoLast

\* the identifier space [0, 2^m)
Ids == 0 .. hashMod - 1

\* between called once on arguments of the identifier space; no process
\* is started
InitBetween ==
    /\ InitNodes
    /\ rawHash["C"] >= 2 * hashMod
    /\ args \in [start : Ids, elt : Ids, end : Ids, inclusive : BOOLEAN]
    /\ members = {}
    /\ ffBudget = 0
    /\ lkBudget = 0

(* ------------------------------------------------------------------ *)
(* Wire format of FindSuccessorRPCReply                                *)
(* ------------------------------------------------------------------ *)
\* What the codec writes for a FindSuccessorRPCReply: the exported fields.
\* The field "found" is unexported and is not marshalled.
Encode(reply) == [SuccessorAddress |-> reply.SuccessorAddress]

\* What the caller's struct `into` holds after the reply was decoded into it
Decode(msg, into) ==
    [found |-> into.found, SuccessorAddress |-> msg.SuccessorAddress]

\* FindSuccessorRPCReply{}
ZeroReply == [found |-> FALSE, SuccessorAddress |-> NoAddr]

(* ------------------------------------------------------------------ *)
(* Routing                                                             *)
(* ------------------------------------------------------------------ *)
closePrecedingNode(n, requestID) ==
    LET hit(i) == between(Identifier(n),
                          strHash(GetName(FingerTable[n][i].Address)),
                          requestID, TRUE)
        hits == {i \in 1 .. fingerTableSize - 1 : hit(i)}
    IN  IF hits = {} THEN Successors[n][1]
        ELSE FingerTable[n][CHOOSE i \in hits : \A j \in hits : j <= i].Address

\* a findSuccessor whose answer depends on how often find has asked
findSuccessorByTurns(n, requestID) ==
    IF lk.i % 2 = 1
    THEN [found |-> FALSE, SuccessorAddress |-> closePrecedingNode(n, requestID)]
    ELSE [found |-> TRUE, SuccessorAddress |-> Successors[n][1]]

findSuccessor(n, requestID) ==
    LET successorName == GetName(Successors[n][1])
    IN  IF between(Identifier(n), requestID, strHash(successorName), TRUE)
        THEN [found |-> TRUE, SuccessorAddress |-> Successors[n][1]]
        ELSE [found |-> FALSE, SuccessorAddress |-> closePrecedingNode(n, requestID)]

\* The reply a caller of ChordCall(n, "Node.FindSuccessorRPC", id, &reply) holds
FindSuccessorRPC(n, requestID) ==
    Decode(Encode(findSuccessor(n, requestID)), ZeroReply)

(* ------------------------------------------------------------------ *)
(* Helpers for processes that stop                                     *)
(* ------------------------------------------------------------------ *)
\* the fixFingers goroutines of the processes in `gone` end with them
ffWithout(gone) ==
    [x \in Nodes |-> IF x \in gone THEN [t \in 1 .. MaxFF |-> IdleFF] ELSE ff[x]]

\* so does the client lookup of such a process
lkWithout(gone) == IF lk.start \in gone THEN IdleLk ELSE lk

(* ------------------------------------------------------------------ *)
(* ScheduledExecutor                                                   *)
(* ------------------------------------------------------------------ *)
\* a loop that goes on selecting the ticker after the quit signal
mayStartAnyway(n, e) == TRUE

\* case <-se.Ticker.C: go task() -- only a loop that has not returned
\* starts an execution of its task
mayStart(n, e) == exec[n][e] = "on"

\* case <-se.Quit: se.Ticker.Stop(); return
quitExecutor(n, e) ==
    /\ status[n] = "up"
    /\ exec[n][e] = "on"
    /\ exec' = [exec EXCEPT ![n][e] = "stopped"]
    /\ last' = NoLast
    /\ UNCHANGED <<fixed, cp, st, srv, ffBudget, lkBudget, status, Predecessor,
                   Successors, FingerTable, next, ff, lk, kills>>

(* ------------------------------------------------------------------ *)
(* Start-up: StartChord, createChord, joinChord                        *)
(* ------------------------------------------------------------------ *)
\* NewNode, rpc.Register, net.Listen, go HandleConnection
Listen(n) ==
    /\ status[n] = "off"
    /\ n \in members
    /\ status' = [status EXCEPT ![n] = "new"]
    /\ last' = NoLast
    /\ UNCHANGED <<fixed, exec, cp, st, srv, ffBudget, lkBudget, Predecessor, Successors, FingerTable, next, ff, lk, kills>>

\* a createChord that does not reset the predecessor
createChordKeeping(n) ==
    /\ status[n] = "new"
    /\ status' = [status EXCEPT ![n] = "up"]
    /\ Successors' = [Successors EXCEPT ![n][1] = n]
    /\ last' = [NoLast EXCEPT !.op = "createChord", !.node = n]
    /\ UNCHANGED <<fixed, exec, cp, st, srv, ffBudget, lkBudget, Predecessor, FingerTable, next, ff, lk, kills>>

createChord(n) ==
    /\ status[n] = "new"
    /\ status' = [status EXCEPT ![n] = "up"]
    /\ Predecessor' = [Predecessor EXCEPT ![n] = NoAddr]
    /\ Successors' = [Successors EXCEPT ![n][1] = n]
    /\ last' = [NoLast EXCEPT !.op = "createChord", !.node = n]
    /\ UNCHANGED <<fixed, exec, cp, st, srv, ffBudget, lkBudget, FingerTable, next, ff, lk, kills>>

\* the loop of joinChord that seeds Successors[1..] (0-based) through
\* FindSuccessorRPC; i is the 1-based slot to fill
RECURSIVE joinFill(_, _, _)
joinFill(n, succs, i) ==
    IF i > Len(succs) THEN succs
    ELSE IF ~CallOK(succs[i - 1]) THEN succs
    ELSE LET reply == FindSuccessorRPC(succs[i - 1], Identifier(n))
         IN  IF reply.found
             THEN joinFill(n, [succs EXCEPT ![i] = reply.SuccessorAddress], i + 1)
             ELSE succs

\* a setPredecessor that only fills an empty field
setPredecessorIfEmpty(pred, predecessorAddress) ==
    IF pred = NoAddr THEN predecessorAddress ELSE pred

\* SetPredecessorRPC / setPredecessor on the serving node
setPredecessor(pred, predecessorAddress) == predecessorAddress

joinChord(n, joinNode) ==
    /\ status[n] = "new"
    /\ joinNode \in Nodes
    /\ status' = [status EXCEPT ![n] = "up"]
    /\ Successors' = [Successors EXCEPT
                        ![n] = joinFill(n, [Successors[n] EXCEPT ![1] = joinNode], 2)]
    /\ Predecessor' = [x \in Nodes |->
                        IF x = joinNode /\ CallOK(joinNode)
                        THEN setPredecessor(Predecessor[x], n)
                        ELSE IF x = n THEN NoAddr
                        ELSE Predecessor[x]]
    /\ last' = [NoLast EXCEPT !.op = "joinChord", !.node = n, !.arg = joinNode,
                              !.pre = Predecessor[joinNode],
                              !.ok = CallOK(joinNode)]
    /\ UNCHANGED <<fixed, exec, cp, st, srv, ffBudget, lkBudget, FingerTable, next, ff, lk, kills>>

(* ------------------------------------------------------------------ *)
(* notify / NotifyRPC                                                  *)
(* ------------------------------------------------------------------ *)
\* a notify whose else branch forgets the predecessor it has
notifyForgetful(n, pred, address) ==
    IF ~CallOK(pred) THEN [ok |-> FALSE, pred |-> pred]
    ELSE IF ~CallOK(address) THEN [ok |-> FALSE, pred |-> pred]
    ELSE IF pred = NoAddr
            \/ between(strHash(GetName(pred)), strHash(GetName(address)),
                       strHash(n), FALSE)
         THEN [ok |-> TRUE, pred |-> address]
         ELSE [ok |-> TRUE, pred |-> NoAddr]

\* notify(address) on node n whose node.Predecessor is pred: `ok` tells
\* whether it returned a flag (TRUE) or nil (FALSE); `pred` is
\* node.Predecessor afterwards
notify(n, pred, address) ==
    IF ~CallOK(pred) THEN [ok |-> FALSE, pred |-> pred]
    ELSE IF ~CallOK(address) THEN [ok |-> FALSE, pred |-> pred]
    ELSE IF pred = NoAddr
            \/ between(strHash(GetName(pred)), strHash(GetName(address)),
                       strHash(n), FALSE)
         THEN [ok |-> TRUE, pred |-> address]
         ELSE [ok |-> TRUE, pred |-> pred]

(* ------------------------------------------------------------------ *)
(* stabilize                                                           *)
(* ------------------------------------------------------------------ *)
\* step (i): the successor list after the GetSuccessorListRPC branch;
\* `oob` tells that a write fell outside the list (index out of range)
refreshSuccessors(n) ==
    LET s == Successors[n]
        r == Len(s)
    IN  IF CallOK(s[1])
        THEN LET L == Successors[s[1]]
             IN  [oob |-> Len(L) > r,
                  list |-> [i \in 1 .. r |->
                              IF i >= 2 /\ i <= Len(L) THEN L[i - 1] ELSE s[i]]]
        ELSE IF s[1] = NoAddr
        THEN [oob |-> FALSE, list |-> [s EXCEPT ![1] = n]]
        ELSE [oob |-> FALSE,
              list |-> [i \in 1 .. r |-> IF i = r THEN NoAddr ELSE s[i + 1]]]

\* step (ii): what GetPredecessorRPC on s[1] and the two GetNameRPC calls
\* lead to: `ret` tells that stabilize returned early with an error
adoptPredecessor(n, s) ==
    LET succ == s[1]
        gotPred == CallOK(succ) /\ Predecessor[succ] # NoAddr
        predecessor == IF gotPred THEN Predecessor[succ] ELSE NoAddr
    IN  IF ~gotPred THEN [ret |-> FALSE, list |-> s]
        ELSE IF ~CallOK(predecessor) THEN [ret |-> TRUE, list |-> s]
        ELSE IF predecessor # NoAddr
                /\ between(strHash(n), strHash(GetName(predecessor)),
                           strHash(GetName(succ)), FALSE)
             THEN [ret |-> FALSE, list |-> [s EXCEPT ![1] = predecessor]]
             ELSE [ret |-> FALSE, list |-> s]

\* one execution; each intermediate value is bound once, in program order
stabilize(n) ==
    /\ status[n] = "up"
    /\ mayStart(n, "stabilize")
    /\ \E r1 \in {refreshSuccessors(n)} :
       \E r2 \in {adoptPredecessor(n, r1.list)} :
       \E target \in {r2.list[1]} :
       \E sent \in {~r1.oob /\ ~r2.ret /\ CallOK(target)} :
       \E out \in {IF sent THEN notify(target, Predecessor[target], n)
                           ELSE [ok |-> TRUE, pred |-> NoAddr]} :
       \E gone \in {IF r1.oob THEN {n}
                   ELSE IF sent /\ ~out.ok THEN {target}
                   ELSE {}} :
           /\ Successors' = [Successors EXCEPT ![n] = IF r1.oob THEN @ ELSE r2.list]
           /\ Predecessor' = IF sent
                             THEN [Predecessor EXCEPT ![target] = out.pred]
                             ELSE Predecessor
           /\ status' = [x \in Nodes |-> IF x \in gone THEN "panic" ELSE status[x]]
           /\ ff' = ffWithout(gone)
           /\ lk' = lkWithout(gone)
           /\ last' = [NoLast EXCEPT !.op = "stabilize", !.node = n,
                          !.arg = IF sent THEN target ELSE NoAddr,
                          !.pre = IF sent THEN Predecessor[target] ELSE NoAddr,
                          !.ok = IF sent THEN out.ok ELSE TRUE]
    /\ UNCHANGED <<fixed, exec, cp, st, srv, ffBudget, lkBudget, FingerTable, next, kills>>

\* stabilize in two steps, for the runs in which a tick starts an execution
\* while the previous one waits for GetSuccessorListRPC.  First step
\* (lines 283-284): successors[0] is read and called.
stabilizeCall(n, t) ==
    /\ status[n] = "up"
    /\ mayStart(n, "stabilize")
    /\ st[n][t].pc = "idle"
    /\ \A u \in 1 .. t - 1 : st[n][u].pc # "idle"   \* goroutines are anonymous
    /\ st' = [st EXCEPT ![n][t] =
                 [pc |-> "called", target |-> Successors[n][1],
                  err |-> ~CallOK(Successors[n][1]),
                  list |-> IF CallOK(Successors[n][1])
                           THEN Successors[Successors[n][1]] ELSE << >>]]
    /\ last' = NoLast
    /\ UNCHANGED <<fixed, exec, cp, srv, ffBudget, lkBudget, status, Predecessor,
                   Successors, FingerTable, next, ff, lk, kills>>

\* step (i) of an execution that holds the outcome (err, L) of its
\* GetSuccessorListRPC, applied to the list node.Successors holds by now
refreshWith(n, err, L) ==
    LET s == Successors[n]
        r == Len(s)
    IN  IF ~err
        THEN [oob |-> Len(L) > r,
              list |-> [i \in 1 .. r |->
                          IF i >= 2 /\ i <= Len(L) THEN L[i - 1] ELSE s[i]]]
        ELSE IF s[1] = NoAddr
        THEN [oob |-> FALSE, list |-> [s EXCEPT ![1] = n]]
        ELSE [oob |-> FALSE,
              list |-> [i \in 1 .. r |-> IF i = r THEN NoAddr ELSE s[i + 1]]]

\* second step (lines 285-333): the list is refreshed from the reply or
\* shifted, then steps (ii) and (iii) follow as in stabilize
stabilizeRest(n, t) ==
    /\ status[n] = "up"
    /\ st[n][t].pc = "called"
    /\ \E r1 \in {refreshWith(n, st[n][t].err, st[n][t].list)} :
       \E r2 \in {adoptPredecessor(n, r1.list)} :
       \E target \in {r2.list[1]} :
       \E sent \in {~r1.oob /\ ~r2.ret /\ CallOK(target)} :
       \E out \in {IF sent THEN notify(target, Predecessor[target], n)
                           ELSE [ok |-> TRUE, pred |-> NoAddr]} :
       \E gone \in {IF r1.oob THEN {n}
                   ELSE IF sent /\ ~out.ok THEN {target}
                   ELSE {}} :
           /\ Successors' = [Successors EXCEPT ![n] = IF r1.oob THEN @ ELSE r2.list]
           /\ Predecessor' = IF sent
                             THEN [Predecessor EXCEPT ![target] = out.pred]
                             ELSE Predecessor
           /\ status' = [x \in Nodes |-> IF x \in gone THEN "panic" ELSE status[x]]
           /\ st' = [x \in Nodes |->
                       IF x \in gone THEN [u \in 1 .. MaxStab |-> IdleSt]
                       ELSE IF x = n THEN [st[n] EXCEPT ![t] = IdleSt]
                       ELSE st[x]]
           /\ ff' = ffWithout(gone)
           /\ lk' = lkWithout(gone)
           /\ last' = [NoLast EXCEPT !.op = "stabilizeRest", !.node = n,
                          !.arg = IF sent THEN target ELSE NoAddr,
                          !.pre = st[n][t].target,
                          !.ok = IF sent THEN out.ok ELSE TRUE]
    /\ UNCHANGED <<fixed, exec, cp, srv, ffBudget, lkBudget, FingerTable, next, kills>>

(* ------------------------------------------------------------------ *)
(* RPC handlers, one step per stretch between two outbound calls       *)
(* ------------------------------------------------------------------ *)
InRange(i) == i >= 0 /\ i <= fingerTableSize - 1

\* node.next = node.next + 1, wrapped (lines 411-415)
advance(i) == IF i + 1 > fingerTableSize - 1 THEN 0 ELSE i + 1

\* HandleConnection: go jsonrpc.ServeConn(conn) -- a listening process
\* serves a new connection at once, whatever its other handlers are doing
serves(a) == CallOK(a)

\* the handlers of the processes in `gone` end with them
srvWithout(gone) == [x \in Nodes |-> IF x \in gone THEN IdleSrv ELSE srv[x]]

\* stabilize of c up to the point where its NotifyRPC(c) has reached the
\* handler of successors[0] (lines 283-329)
stabilizeSend(c) ==
    /\ status[c] = "up"
    /\ mayStart(c, "stabilize")
    /\ \E r1 \in {refreshSuccessors(c)} :
       \E r2 \in {adoptPredecessor(c, r1.list)} :
       \E target \in {r2.list[1]} :
       \E sent \in {~r1.oob /\ ~r2.ret /\ serves(target)} :
           /\ sent => srv[target].pc = "idle"
           /\ Successors' = [Successors EXCEPT ![c] = IF r1.oob THEN @ ELSE r2.list]
           /\ status' = [status EXCEPT ![c] = IF r1.oob THEN "panic" ELSE @]
           /\ srv' = IF r1.oob THEN srvWithout({c})
                     ELSE IF sent
                     THEN [srv EXCEPT ![target] = [pc |-> "pred", from |-> c,
                                                   id |-> 0, name |-> NoAddr]]
                     ELSE srv
           /\ ff' = IF r1.oob THEN ffWithout({c}) ELSE ff
           /\ lk' = IF r1.oob THEN lkWithout({c}) ELSE lk
           /\ last' = NoLast
    /\ UNCHANGED <<fixed, exec, cp, st, ffBudget, lkBudget, Predecessor,
                   FingerTable, next, kills>>

\* notify, lines 359-364: GetNameRPC on node.Predecessor; nil is returned
\* on an error and NotifyRPC dereferences it
notifyPredName(x) ==
    /\ CallOK(x)
    /\ srv[x].pc = "pred"
    /\ IF serves(Predecessor[x])
       THEN /\ srv' = [srv EXCEPT ![x].pc = "addr",
                                  ![x].name = GetName(Predecessor[x])]
            /\ UNCHANGED <<status, ff, lk>>
       ELSE /\ status' = [status EXCEPT ![x] = "panic"]
            /\ srv' = srvWithout({x})
            /\ ff' = ffWithout({x})
            /\ lk' = lkWithout({x})
    /\ last' = NoLast
    /\ UNCHANGED <<fixed, exec, cp, st, ffBudget, lkBudget, Predecessor,
                   Successors, FingerTable, next, kills>>

\* notify, lines 365-378, and the reply of NotifyRPC
notifyAddrName(x) ==
    /\ CallOK(x)
    /\ srv[x].pc = "addr"
    /\ IF serves(srv[x].from)
       THEN /\ Predecessor' =
                  [Predecessor EXCEPT ![x] =
                      IF @ = NoAddr
                         \/ between(strHash(srv[x].name),
                                    strHash(GetName(srv[x].from)),
                                    strHash(x), FALSE)
                      THEN srv[x].from ELSE @]
            /\ srv' = [srv EXCEPT ![x] = IdleSrv]
            /\ last' = [NoLast EXCEPT !.op = "reply", !.node = x,
                                      !.arg = srv[x].from]
            /\ UNCHANGED <<status, ff, lk>>
       ELSE /\ status' = [status EXCEPT ![x] = "panic"]
            /\ srv' = srvWithout({x})
            /\ ff' = ffWithout({x})
            /\ lk' = lkWithout({x})
            /\ last' = NoLast
            /\ UNCHANGED Predecessor
    /\ UNCHANGED <<fixed, exec, cp, st, ffBudget, lkBudget, Successors,
                   FingerTable, next, kills>>

\* fixFingers has sent FindSuccessorRPC(id) to the node's own address (line
\* 419) and the handler has begun
findAccept(x) ==
    /\ status[x] = "up"
    /\ mayStart(x, "fixFingers")
    /\ srv[x].pc = "idle"
    /\ srv' = [srv EXCEPT ![x] = [pc |-> "succ", from |-> x,
                                  id |-> fingerEntry(x, advance(next[x])),
                                  name |-> NoAddr]]
    /\ next' = [next EXCEPT ![x] = advance(next[x])]
    /\ last' = NoLast
    /\ UNCHANGED <<fixed, exec, cp, st, ffBudget, lkBudget, status, Predecessor,
                   Successors, FingerTable, ff, lk, kills>>

\* findSuccessor, lines 495-496: GetNameRPC on successors[0]; the error is
\* dropped
findSuccName(x) ==
    /\ CallOK(x)
    /\ srv[x].pc = "succ"
    /\ srv' = [srv EXCEPT ![x].pc = "test",
                          ![x].name = GetName(Successors[x][1])]
    /\ last' = NoLast
    /\ UNCHANGED <<fixed, exec, cp, st, ffBudget, lkBudget, status, Predecessor,
                   Successors, FingerTable, next, ff, lk, kills>>

\* findSuccessor, lines 497-501, and the reply of FindSuccessorRPC
findReply(x) ==
    /\ CallOK(x)
    /\ srv[x].pc = "test"
    /\ srv' = [srv EXCEPT ![x] = IdleSrv]
    /\ last' = [NoLast EXCEPT
                  !.op = "reply", !.node = x, !.arg = srv[x].from,
                  !.id = srv[x].id,
                  !.found = between(Identifier(x), srv[x].id,
                                    strHash(srv[x].name), TRUE),
                  !.addr = IF between(Identifier(x), srv[x].id,
                                      strHash(srv[x].name), TRUE)
                           THEN Successors[x][1]
                           ELSE closePrecedingNode(x, srv[x].id)]
    /\ UNCHANGED <<fixed, exec, cp, st, ffBudget, lkBudget, status, Predecessor,
                   Successors, FingerTable, next, ff, lk, kills>>

(* ------------------------------------------------------------------ *)
(* checkPredecessor                                                    *)
(* ------------------------------------------------------------------ *)
\* a checkPredecessor that clears the field without dialling
checkedPredecessorBlind(n) == NoAddr

\* node.Predecessor after checkPredecessor
checkedPredecessor(n) ==
    LET pred == Predecessor[n] IN
    IF pred # NoAddr /\ ~CallOK(pred) THEN NoAddr ELSE pred

checkPredecessor(n) ==
    /\ status[n] = "up"
    /\ mayStart(n, "checkPredecessor")
    /\ Predecessor' = [Predecessor EXCEPT ![n] = checkedPredecessor(n)]
    /\ last' = [NoLast EXCEPT !.op = "checkPredecessor", !.node = n,
                              !.pre = Predecessor[n],
                              !.ok = CallOK(Predecessor[n])]
    /\ UNCHANGED <<fixed, exec, cp, st, srv, ffBudget, lkBudget, status, Successors, FingerTable, next, ff, lk, kills>>

\* checkPredecessor in two steps, for the runs in which handlers are served
\* while rpc.Dial is under way.  First step (lines 340-343): pred is read
\* and dialled.
checkPredecessorDial(n) ==
    /\ status[n] = "up"
    /\ mayStart(n, "checkPredecessor")
    /\ cp[n].pc = "idle"
    /\ cp' = [cp EXCEPT ![n] = [pc |-> "dialled", pred |-> Predecessor[n],
                                 err |-> Predecessor[n] # NoAddr
                                         /\ ~CallOK(Predecessor[n])]]
    /\ last' = NoLast
    /\ UNCHANGED <<fixed, exec, st, srv, ffBudget, lkBudget, status, Predecessor, Successors,
                   FingerTable, next, ff, lk, kills>>

\* node.Predecessor after the second step (lines 345-350), when it was
\* pred before the step
cleared(pred, dialled, err) == IF err THEN NoAddr ELSE pred

\* second step: the outcome of the dial is acted upon
checkPredecessorCommit(n) ==
    /\ status[n] = "up"
    /\ cp[n].pc = "dialled"
    /\ Predecessor' = [Predecessor EXCEPT
                          ![n] = cleared(@, cp[n].pred, cp[n].err)]
    /\ cp' = [cp EXCEPT ![n] = IdleCP]
    /\ last' = [NoLast EXCEPT !.op = "checkPredecessorCommit", !.node = n,
                              !.pre = cp[n].pred, !.ok = ~cp[n].err]
    /\ UNCHANGED <<fixed, exec, st, srv, ffBudget, lkBudget, status, Successors,
                   FingerTable, next, ff, lk, kills>>

(* ------------------------------------------------------------------ *)
(* Environment: a process is killed                                    *)
(* ------------------------------------------------------------------ *)
Kill(n) ==
    /\ status[n] \in {"new", "up"}
    /\ kills < MaxKills
    /\ kills' = kills + 1
    /\ status' = [status EXCEPT ![n] = "dead"]
    /\ ff' = ffWithout({n})
    /\ lk' = lkWithout({n})
    /\ last' = [NoLast EXCEPT !.op = "Kill", !.node = n]
    /\ UNCHANGED <<fixed, exec, cp, st, srv, ffBudget, lkBudget, Predecessor, Successors, FingerTable, next>>

(* ------------------------------------------------------------------ *)
(* fixFingers, one step per stretch between two outbound calls         *)
(* ------------------------------------------------------------------ *)
\* node.FingerTable[node.next] = {id.Bytes(), address}
setFinger(n, id, address) ==
    [FingerTable EXCEPT ![n][next[n]] = [Id |-> BytesOf(id), Address |-> address]]

\* lines 411-419: advance next, compute the id, send FindSuccessorRPC to self
ffStart(n, t) ==
    /\ status[n] = "up"
    /\ mayStart(n, "fixFingers")
    /\ ff[n][t].pc = "idle"
    /\ \A u \in 1 .. t - 1 : ff[n][u].pc # "idle"   \* goroutines are anonymous
    /\ ffBudget > 0
    /\ ffBudget' = ffBudget - 1
    /\ next' = [next EXCEPT ![n] = advance(next[n])]
    /\ ff' = [ff EXCEPT ![n][t] = [pc |-> "find",
                                   id |-> fingerEntry(n, advance(next[n])),
                                   res |-> NoAddr]]
    /\ last' = NoLast
    /\ UNCHANGED <<fixed, exec, cp, st, srv, lkBudget, status, Predecessor, Successors, FingerTable, lk, kills>>

\* lines 419-430: the reply arrives and is written to slot node.next
ffFind(n, t) ==
    /\ status[n] = "up"
    /\ ff[n][t].pc = "find"
    /\ LET local == findSuccessor(n, ff[n][t].id)
           result == FindSuccessorRPC(n, ff[n][t].id)
       IN  /\ last' = [NoLast EXCEPT !.op = "ffFind", !.node = n,
                          !.id = ff[n][t].id,
                          !.found = local.found, !.addr = local.SuccessorAddress,
                          !.wfound = result.found,
                          !.waddr = result.SuccessorAddress]
           /\ IF InRange(next[n])
              THEN /\ FingerTable' = setFinger(n, ff[n][t].id, result.SuccessorAddress)
                   /\ ff' = [ff EXCEPT ![n][t] = [pc |-> "loop", id |-> 0,
                                                  res |-> result.SuccessorAddress]]
                   /\ UNCHANGED <<status, lk>>
              ELSE /\ status' = [status EXCEPT ![n] = "panic"]
                   /\ ff' = ffWithout({n})
                   /\ lk' = lkWithout({n})
                   /\ UNCHANGED FingerTable
    /\ UNCHANGED <<fixed, exec, cp, st, srv, ffBudget, lkBudget, Predecessor, Successors, next, kills>>

\* lines 438-445: advance next, return on wrap, else send GetNameRPC
ffLoop(n, t) ==
    /\ status[n] = "up"
    /\ ff[n][t].pc = "loop"
    /\ IF next[n] + 1 > fingerTableSize - 1
       THEN /\ next' = [next EXCEPT ![n] = 0]
            /\ ff' = [ff EXCEPT ![n][t] = IdleFF]
       ELSE /\ next' = [next EXCEPT ![n] = next[n] + 1]
            /\ ff' = [ff EXCEPT ![n][t] = [pc |-> "name",
                                           id |-> fingerEntry(n, next[n] + 1),
                                           res |-> ff[n][t].res]]
    /\ last' = NoLast
    /\ UNCHANGED <<fixed, exec, cp, st, srv, ffBudget, lkBudget, status, Predecessor, Successors, FingerTable, lk, kills>>

\* lines 445-456: the name arrives; fill the slot or step back and return
ffName(n, t) ==
    /\ status[n] = "up"
    /\ ff[n][t].pc = "name"
    /\ LET res == ff[n][t].res
           id == ff[n][t].id
       IN  IF ~CallOK(res)
           THEN /\ ff' = [ff EXCEPT ![n][t] = IdleFF]
                /\ UNCHANGED <<status, FingerTable, next, lk>>
           ELSE IF between(strHash(n), id, strHash(GetName(res)), FALSE)
                   /\ res # NoAddr
           THEN IF InRange(next[n])
                THEN /\ FingerTable' = setFinger(n, id, res)
                     /\ ff' = [ff EXCEPT ![n][t] = [pc |-> "loop", id |-> 0,
                                                    res |-> res]]
                     /\ UNCHANGED <<status, next, lk>>
                ELSE /\ status' = [status EXCEPT ![n] = "panic"]
                     /\ ff' = ffWithout({n})
                     /\ lk' = lkWithout({n})
                     /\ UNCHANGED <<FingerTable, next>>
           ELSE /\ next' = [next EXCEPT ![n] = next[n] - 1]
                /\ ff' = [ff EXCEPT ![n][t] = IdleFF]
                /\ UNCHANGED <<status, FingerTable, lk>>
    /\ last' = NoLast
    /\ UNCHANGED <<fixed, exec, cp, st, srv, ffBudget, lkBudget, Predecessor, Successors, kills>>

(* ------------------------------------------------------------------ *)
(* ClientLookUp / find, one step per hop                               *)
(* ------------------------------------------------------------------ *)
\* a find that returns the last hop whether or not it was found
findResultAnyway(found, nextNode) == nextNode

\* what find returns once its loop has ended
findResult(found, nextNode) == IF found THEN nextNode ELSE FindFailed

\* ClientLookUp: newKey = StrHash(key); find(newKey, node.Address) begins
lookupStart(n, newKey) ==
    /\ status[n] = "up"
    /\ lk.pc = "idle"
    /\ lkBudget > 0
    /\ lkBudget' = lkBudget - 1
    /\ lk' = [pc |-> "hop", start |-> n, id |-> newKey, nextNode |-> n,
              i |-> 0, found |-> FALSE, result |-> NoAddr]
    /\ last' = NoLast
    /\ UNCHANGED <<fixed, exec, cp, st, srv, ffBudget, status, Predecessor, Successors, FingerTable, next, ff, kills>>

\* one iteration of the loop of find
lookupHop ==
    /\ lk.pc = "hop"
    /\ IF ~CallOK(lk.nextNode)
       THEN /\ lk' = [lk EXCEPT !.pc = "done",
                                !.result = findResult(lk.found, lk.nextNode)]
            /\ last' = [NoLast EXCEPT !.op = "lookupHop", !.node = lk.start,
                                      !.id = lk.id, !.ok = FALSE]
       ELSE LET local == findSuccessor(lk.nextNode, lk.id)
                result == FindSuccessorRPC(lk.nextNode, lk.id)
                over == result.found \/ lk.i + 1 >= maxSteps
            IN  /\ lk' = [lk EXCEPT !.pc = IF over THEN "done" ELSE "hop",
                                    !.found = result.found,
                                    !.nextNode = result.SuccessorAddress,
                                    !.i = lk.i + 1,
                                    !.result = IF over
                                               THEN findResult(result.found,
                                                               result.SuccessorAddress)
                                               ELSE NoAddr]
                /\ last' = [NoLast EXCEPT !.op = "FindSuccessorRPC",
                               !.node = lk.nextNode, !.id = lk.id,
                               !.found = local.found,
                               !.addr = local.SuccessorAddress,
                               !.wfound = result.found,
                               !.waddr = result.SuccessorAddress,
                               !.again = /\ last.op = "FindSuccessorRPC"
                                         /\ last.node = lk.nextNode
                                         /\ last.id = lk.id]
    /\ UNCHANGED <<fixed, exec, cp, st, srv, ffBudget, lkBudget, status, Predecessor, Successors, FingerTable, next, ff, kills>>

\* ClientLookUp returns: (addr, nil), or ("", error) when find gave "-1"
lookupReturn ==
    /\ lk.pc = "done"
    /\ lk' = IdleLk
    /\ last' = [NoLast EXCEPT !.op = "lookupReturn", !.node = lk.start,
                              !.id = lk.id,
                              !.addr = IF lk.result = FindFailed THEN NoAddr
                                       ELSE lk.result,
                              !.ok = lk.result # FindFailed]
    /\ UNCHANGED <<fixed, exec, cp, st, srv, ffBudget, lkBudget, status, Predecessor, Successors, FingerTable, next, ff, kills>>

(* ------------------------------------------------------------------ *)
(* ClientStoreFile                                                     *)
(* ------------------------------------------------------------------ *)
\* the test after ChordCall(addr, "Node.StoreFileRPC", ...): TRUE when
\* ClientStoreFile returns an error
storeFailed(callErr, replyErr) == replyErr /\ callErr

\* ClientStoreFile on node n.  addr is what find gave ClientLookUp, opened
\* tells whether the file could be read, stored whether the serving node
\* reports no storage error.  last.ok tells that nil was returned.
ClientStoreFile(n, addr, opened, stored) ==
    /\ status[n] = "up"
    /\ LET sent == addr # FindFailed /\ opened
           callErr == sent /\ ~CallOK(addr)
           replyErr == sent /\ CallOK(addr) /\ ~stored
       IN  last' = [NoLast EXCEPT
                      !.op = "ClientStoreFile", !.node = n, !.addr = addr,
                      !.sent = sent, !.callErr = callErr, !.replyErr = replyErr,
                      !.ok = sent /\ ~storeFailed(callErr, replyErr)]
    /\ UNCHANGED <<fixed, exec, cp, st, srv, ffBudget, lkBudget, status, Predecessor, Successors,
                   FingerTable, next, ff, lk, kills>>

(* ------------------------------------------------------------------ *)
(* A direct call of closePrecedingNode                                 *)
(* ------------------------------------------------------------------ *)
\* node.closePrecedingNode(requestID) returns; last.addr holds the result
closestCall(n, requestID) ==
    /\ status[n] = "up"
    /\ last' = [NoLast EXCEPT !.op = "closePrecedingNode", !.node = n,
                              !.id = requestID,
                              !.addr = closePrecedingNode(n, requestID)]
    /\ UNCHANGED <<fixed, exec, cp, st, srv, ffBudget, lkBudget, status, Predecessor, Successors,
                   FingerTable, next, ff, lk, kills>>

(* ------------------------------------------------------------------ *)
(* A direct call of between                                            *)
(* ------------------------------------------------------------------ *)
\* between(args...) returns; last.ok holds what it returned
betweenCall ==
    /\ last.op = "none"
    /\ members = {}
    /\ last' = [NoLast EXCEPT !.op = "between",
                              !.ok = between(args.start, args.elt, args.end,
                                             args.inclusive)]
    /\ UNCHANGED <<fixed, exec, cp, st, srv, ffBudget, lkBudget, status, Predecessor, Successors,
                   FingerTable, next, ff, lk, kills>>

(* ------------------------------------------------------------------ *)
(* Specification                                                       *)
(* ------------------------------------------------------------------ *)
NextStart ==
    \/ \E n \in Nodes : Listen(n)
    \/ \E n \in Nodes : createChord(n)
    \/ \E n \in Nodes, j \in Nodes : joinChord(n, j)

NextFixFingers ==
    \/ \E n \in Nodes, t \in 1 .. MaxFF : ffStart(n, t)
    \/ \E n \in Nodes, t \in 1 .. MaxFF : ffFind(n, t)
    \/ \E n \in Nodes, t \in 1 .. MaxFF : ffLoop(n, t)
    \/ \E n \in Nodes, t \in 1 .. MaxFF : ffName(n, t)

NextLookup ==
    \/ \E n \in Nodes, k \in KeyHashes : lookupStart(n, k)
    \/ lookupHop
    \/ lookupReturn

\* routing: start-up, stabilize, fixFingers and client lookups
Next ==
    \/ NextStart
    \/ \E n \in Nodes : stabilize(n)
    \/ NextFixFingers
    \/ NextLookup

Spec == Init /\ [][Next]_vars

\* ring maintenance with failures
NextRing ==
    \/ NextStart
    \/ \E n \in Nodes : stabilize(n)
    \/ \E n \in Nodes : checkPredecessor(n)
    \/ \E n \in Nodes : Kill(n)

SpecRing == InitRing /\ [][NextRing]_vars

\* recovery from a failure; the tickers of a running process fire again
\* and again
NextRecover ==
    \/ \E n \in Nodes : stabilize(n)
    \/ \E n \in Nodes : checkPredecessor(n)
    \/ \E n \in Nodes : Kill(n)

FairRecover ==
    /\ InitChain
    /\ [][NextRecover]_vars
    /\ \A n \in Nodes : WF_vars(stabilize(n)) /\ WF_vars(checkPredecessor(n))

\* two processes that are never killed; the tickers of a running process
\* fire again and again
NextTwo ==
    \/ NextStart
    \/ \E n \in Nodes : stabilize(n)
    \/ \E n \in Nodes : checkPredecessor(n)

FairTwo ==
    /\ InitTwo
    /\ [][NextTwo]_vars
    /\ \A n \in Nodes : WF_vars(stabilize(n)) /\ WF_vars(checkPredecessor(n))

\* finger tables when every tick finds the previous execution finished
NextSweep ==
    \/ NextStart
    \/ \E n \in Nodes : ffStart(n, 1)
    \/ \E n \in Nodes : ffFind(n, 1)
    \/ \E n \in Nodes : ffLoop(n, 1)
    \/ \E n \in Nodes : ffName(n, 1)

SpecSweep == InitSweep /\ [][NextSweep]_vars

\* closePrecedingNode called on the routing state of three processes
NextClosest ==
    \/ NextStart
    \/ \E n \in Nodes : ffStart(n, 1)
    \/ \E n \in Nodes : ffFind(n, 1)
    \/ \E n \in Nodes : ffLoop(n, 1)
    \/ \E n \in Nodes : ffName(n, 1)
    \/ \E n \in Nodes, id \in ProbeIds : closestCall(n, id)

SpecClosest == InitClosest /\ [][NextClosest]_vars

\* two processes that are never killed, with the handlers of NotifyRPC and
\* FindSuccessorRPC taking their steps one by one; a handler that has begun
\* goes on
NextServe ==
    \/ NextStart
    \/ \E c \in Nodes : stabilizeSend(c)
    \/ \E x \in Nodes : notifyPredName(x)
    \/ \E x \in Nodes : notifyAddrName(x)
    \/ \E x \in Nodes : findAccept(x)
    \/ \E x \in Nodes : findSuccName(x)
    \/ \E x \in Nodes : findReply(x)

FairServe ==
    /\ InitTwo
    /\ [][NextServe]_vars
    /\ \A x \in Nodes : /\ WF_vars(notifyPredName(x))
                         /\ WF_vars(notifyAddrName(x))
                         /\ WF_vars(findSuccName(x))
                         /\ WF_vars(findReply(x))

\* two processes whose stabilize executions overlap, one of which may fail
NextOverlap ==
    \/ NextStart
    \/ \E n \in Nodes, t \in 1 .. MaxStab : stabilizeCall(n, t)
    \/ \E n \in Nodes, t \in 1 .. MaxStab : stabilizeRest(n, t)
    \/ \E n \in Nodes : Kill(n)

SpecOverlap == InitTwo /\ [][NextOverlap]_vars

\* ring maintenance in which joins, notifications and failures fall between
\* the dial of checkPredecessor and its write
NextCheck ==
    \/ NextStart
    \/ \E n \in Nodes : stabilize(n)
    \/ \E n \in Nodes : checkPredecessorDial(n)
    \/ \E n \in Nodes : checkPredecessorCommit(n)
    \/ \E n \in Nodes : Kill(n)

SpecCheck == InitRing /\ [][NextCheck]_vars

\* the same maintenance when the -r values differ
SpecMixed == InitMixed /\ [][NextTwo]_vars

\* finger tables over a ring that is only being joined
NextFingers ==
    \/ NextStart
    \/ NextFixFingers

SpecFingers == InitFingers /\ [][NextFingers]_vars

\* maintenance of two processes whose executors receive quit signals
NextQuit ==
    \/ NextStart
    \/ \E n \in Nodes : stabilize(n)
    \/ \E n \in Nodes : checkPredecessor(n)
    \/ NextFixFingers
    \/ \E n \in Nodes, e \in Tasks : quitExecutor(n, e)

SpecQuit == Init /\ [][NextQuit]_vars

\* clients that store files while processes start and fail
NextStore ==
    \/ NextStart
    \/ \E n \in Nodes : Kill(n)
    \/ \E n \in Nodes, addr \in Nodes \cup {FindFailed}, opened, stored \in BOOLEAN :
          ClientStoreFile(n, addr, opened, stored)

SpecStore == InitRing /\ [][NextStore]_vars

\* the identifier arithmetic on its own
NextBetween == betweenCall

SpecBetween == InitBetween /\ [][NextBetween]_vars

(* ================================================================== *)
(* Properties                                                          *)
(* ================================================================== *)
\* x lies strictly on the clockwise arc from a to b of the identifier ring
OnArc(a, x, b) == IF a < b THEN a < x /\ x < b ELSE x > a \/ x < b

\* clockwise distance from identifier a to identifier b
Dist(a, b) == (b - a + hashMod) % hashMod

UpNodes == {n \in Nodes : status[n] = "up"}

\* the running node whose identifier is the first one clockwise from id
TrueSuccessor(id) ==
    CHOOSE n \in UpNodes :
        \A x \in UpNodes : Dist(id % hashMod, Identifier(n))
                              <= Dist(id % hashMod, Identifier(x))

\* every started process runs in the ring, and the successor pointers and
\* fingers of every one of them are the true ones
Steady ==
    /\ UpNodes # {}
    /\ \A n \in Nodes : status[n] \in {"off", "up"}
    /\ \A n \in UpNodes :
          /\ Successors[n][1] = TrueSuccessor(Identifier(n) + 1)
          /\ \A i \in 0 .. fingerTableSize - 1 :
                FingerTable[n][i].Address = TrueSuccessor(fingerEntry(n, i))

\* the last step ran stabilize and its NotifyRPC reached a node
Notified == last.op = "stabilize" /\ last.arg # NoAddr

(* ---- C1 ---------------------------------------------------------- *)
TwoNodeStart ==
    /\ last.op = "joinChord" /\ last.node = "B" /\ last.arg = "A" /\ last.ok
    /\ status["A"] = "up" /\ status["B"] = "up"
    /\ Successors["A"][1] = "A"

Converged ==
    /\ Successors["A"][1] = "B" /\ Successors["B"][1] = "A"
    /\ Predecessor["A"] = "B" /\ Predecessor["B"] = "A"

\* C1: once A has created the ring and B has joined through A, with both
\* alive and stabilize and checkPredecessor running again and again, the
\* two nodes eventually are, and stay, each other's successor and
\* predecessor.
C1_TwoNodeConvergence == [](TwoNodeStart => <>[]Converged)

(* ---- C2 ---------------------------------------------------------- *)
\* C2: on a ring whose successor pointers and fingers are at steady state,
\* a lookup returns the address of the node whose identifier is the first
\* one clockwise from the key's identifier, for every start node and key.
C2_LookupCorrect ==
    (last.op = "lookupReturn" /\ Steady) => last.addr = TrueSuccessor(last.id)

(* ---- C3 ---------------------------------------------------------- *)
\* C3: in every reachable state every finger slot i holds the id
\* (identifier + 2^i) mod 2^m, also while fixFingers executions overlap.
C3_FingerIds ==
    \A n \in Nodes : \A i \in 0 .. fingerTableSize - 1 :
        SetBytes(FingerTable[n][i].Id) = fingerEntry(n, i)

(* ---- C4 ---------------------------------------------------------- *)
\* C4: when NotifyRPC(a) is handled by a node whose predecessor is empty,
\* the handler replies and the node's predecessor is a afterwards.
C4_NotifyEmpty ==
    (Notified /\ last.pre = NoAddr)
        => (last.ok /\ Predecessor[last.arg] = last.node)

(* ---- C5 ---------------------------------------------------------- *)
\* C5: when NotifyRPC(b) is handled by a node whose predecessor is p, the
\* predecessor becomes b if b's identifier lies strictly on the arc
\* (id(p), self.identifier), and stays p otherwise.
C5_NotifyKnown ==
    (Notified /\ last.pre # NoAddr)
        => Predecessor[last.arg] =
              IF OnArc(Identifier(last.pre), Identifier(last.node),
                       Identifier(last.arg))
              THEN last.node ELSE last.pre

(* ---- C6 ---------------------------------------------------------- *)
\* C6: notify is idempotent: in every state, for every node and every
\* candidate a, the predecessor after notify(a) followed by notify(a) is the
\* predecessor after the first notify(a).
C6_NotifyIdempotent ==
    \A n \in Nodes : \A a \in Addrs :
        LET first == notify(n, Predecessor[n], a)
        IN  notify(n, first.pred, a).pred = first.pred

\* a notify has just replaced a known predecessor by its candidate
C6_Adopted ==
    /\ Notified /\ last.ok
    /\ last.pre # NoAddr /\ last.pre # last.node
    /\ Predecessor[last.arg] = last.node

(* ---- C7 ---------------------------------------------------------- *)
\* C7: checkPredecessor empties the predecessor when it is non-empty and the
\* connect to it fails, leaves it as it is when it is reachable or already
\* empty, and never changes successors, finger table or next.
C7_CheckPredecessor ==
    [][\A n \in Nodes :
          (last'.op = "checkPredecessor" /\ last'.node = n)
              => /\ Predecessor'[n] =
                        IF Predecessor[n] # NoAddr /\ ~CallOK(Predecessor[n])
                        THEN NoAddr ELSE Predecessor[n]
                 /\ UNCHANGED <<Successors, FingerTable, next>>]_vars

\* checkPredecessor has just found its predecessor unreachable
C7_Cleared ==
    /\ last.op = "checkPredecessor"
    /\ last.pre # NoAddr /\ ~last.ok
    /\ Predecessor[last.node] = NoAddr

(* ---- C8 ---------------------------------------------------------- *)
\* C8: once createChord or joinChord has initialised a node, every change
\* of its predecessor is Empty -> Known(a) by notify(a), or Known(a) ->
\* Known(b) by notify(b) with b strictly on the arc (id(a), own identifier),
\* or Known(a) -> Empty by checkPredecessor finding a unreachable.
C8_PredecessorMachine ==
    [][\A n \in Nodes :
          (status[n] = "up" /\ Predecessor'[n] # Predecessor[n])
              => \/ /\ Predecessor[n] = NoAddr
                    /\ Notified' /\ last'.arg = n
                    /\ Predecessor'[n] = last'.node
                 \/ /\ Predecessor[n] # NoAddr
                    /\ Notified' /\ last'.arg = n
                    /\ Predecessor'[n] = last'.node
                    /\ OnArc(Identifier(Predecessor[n]), Identifier(last'.node),
                             Identifier(n))
                 \/ /\ Predecessor[n] # NoAddr
                    /\ last'.op = "checkPredecessor" /\ last'.node = n
                    /\ ~CallOK(Predecessor[n])
                    /\ Predecessor'[n] = NoAddr]_vars

(* ---- C9 ---------------------------------------------------------- *)
\* x lies on the arc (a, b] of the identifier ring
OnArcIncl(a, x, b) == x = b \/ OnArc(a, x, b)

\* C9: findSuccessor(id) on node n gives (true, successors[0]) exactly when
\* id lies on the arc (n.identifier, id(successors[0])], and otherwise
\* (false, closePrecedingNode(id)); the reply the caller of FindSuccessorRPC
\* receives carries the same found flag and address.
C9_FindSuccessorRule ==
    last.op = "FindSuccessorRPC" =>
        LET n == last.node
            s == Successors[n][1]
        IN  /\ s \in Nodes =>
                 (last.found <=> OnArcIncl(Identifier(n), last.id % hashMod,
                                           Identifier(s)))
            /\ last.addr = IF last.found THEN s
                           ELSE closePrecedingNode(n, last.id)
            /\ last.wfound = last.found
            /\ last.waddr = last.addr

Called(start, elt, end, inclusive) ==
    /\ last.op = "between"
    /\ args = [start |-> start, elt |-> elt, end |-> end,
               inclusive |-> inclusive]

\* C11: for all start, elt, end of [0, 2^m), between(start, elt, end, false)
\* is true exactly when start < elt < end if end > start, and exactly when
\* elt > start or elt < end if end <= start; between(10, 0, 5, false) is
\* true, between(10, 7, 5, false) is false, between(10, 5, 5, true) is true.
C11_BetweenArc ==
    /\ (last.op = "between" /\ ~args.inclusive)
          => (last.ok <=> IF args.end > args.start
                          THEN args.start < args.elt /\ args.elt < args.end
                          ELSE args.elt > args.start \/ args.elt < args.end)
    /\ Called(10, 0, 5, FALSE) => last.ok
    /\ Called(10, 7, 5, FALSE) => ~last.ok
    /\ Called(10, 5, 5, TRUE) => last.ok

\* the wrapping call between(10, 0, 5, false) has returned true
C11_Wrapped == Called(10, 0, 5, FALSE) /\ last.ok

(* ---- C12 --------------------------------------------------------- *)
\* C12: for all start, elt, end, between(start, elt, end, true) equals
\* (between(start, elt, end, false) or elt = end).
C12_InclusiveFlag ==
    (last.op = "between" /\ args.inclusive)
        => (last.ok <=> (\/ between(args.start, args.elt, args.end, FALSE)
                         \/ args.elt = args.end))

\* an inclusive call on elt = end of a wrapping arc has returned true
C12_EndIncluded ==
    /\ last.op = "between" /\ args.inclusive
    /\ args.elt = args.end /\ args.end < args.start
    /\ last.ok

(* ---- C13 --------------------------------------------------------- *)
\* C13: for all start, end and both values of inclusive, also when
\* start = end, between(start, start, end, inclusive) is false.
C13_StartExcluded ==
    (last.op = "between" /\ args.elt = args.start) => ~last.ok

\* C13, amended: between(start, start, end, inclusive) is false, except
\* that it is true when inclusive is set and start = end.
C13_StartExcludedUnlessEnd ==
    (last.op = "between" /\ args.elt = args.start)
        => (last.ok <=> (args.inclusive /\ args.start = args.end))

\* an inclusive call on elt = start # end has returned false
C13_StartLeftOut ==
    /\ last.op = "between" /\ args.inclusive
    /\ args.elt = args.start /\ args.start # args.end
    /\ ~last.ok

(* ---- C14 --------------------------------------------------------- *)
\* the node that precedes n on the identifier ring of all three nodes
RingPredecessor(n) ==
    CHOOSE x \in Nodes \ {n} :
        \A y \in Nodes \ {n} : Dist(Identifier(x), Identifier(n))
                                  <= Dist(Identifier(y), Identifier(n))

\* a node fails at most once in a run (MaxKills)
Dead(c) == status[c] = "dead"

\* n follows c on the ring: c is its ring predecessor
Heir(n, c) == n # c /\ RingPredecessor(n) = c

\* n precedes c on the ring
Orphan(n, c) == n # c /\ RingPredecessor(c) = n

\* a node has just failed while the other two run
Failed ==
    /\ last.op = "Kill"
    /\ \A x \in Nodes \ {last.node} : status[x] = "up"

HeirBereft ==
    Failed /\ \E c, n \in Nodes : Dead(c) /\ Heir(n, c) /\ Predecessor[n] = c

HeirCleared ==
    \E c, n \in Nodes : Dead(c) /\ Heir(n, c) /\ Predecessor[n] = NoAddr

OrphanBereft ==
    Failed /\ \E c, n \in Nodes : Dead(c) /\ Orphan(n, c) /\ Successors[n][1] = c

OrphanRepaired ==
    \E c, n \in Nodes : Dead(c) /\ Orphan(n, c) /\ CallOK(Successors[n][1])

\* C14: after node c of a three-node ring fails for good, with stabilize
\* and checkPredecessor of the others running again and again, the node
\* whose predecessor was c (its ring predecessor) eventually has an empty
\* predecessor, and the node whose successors[0] was c (its ring successor)
\* eventually has a live node as successors[0].
C14_Recovery ==
    /\ [](HeirBereft => <>HeirCleared)
    /\ [](OrphanBereft => <>OrphanRepaired)

(* ---- C15 --------------------------------------------------------- *)
\* C15: find issues at most maxSteps FindSuccessorRPC calls and then ends,
\* whatever the routing state; it returns an address only if a hop replied
\* found = true, and the failure sentinel when the budget is used up or a
\* call fails in transport; ClientLookUp reports the sentinel as an error.
C15_BoundedLookup ==
    [][/\ lk'.i <= maxSteps
       /\ lk'.pc = "hop" => lk'.i < maxSteps
       /\ (lk.pc = "hop" /\ lk' # lk /\ lk'.pc = "hop") => lk'.i = lk.i + 1
       /\ lk'.pc = "done" => (lk'.result # FindFailed <=> lk'.found)
       /\ (last'.op = "lookupHop" /\ ~last'.ok)
             => (lk'.pc = "done" /\ lk'.result = FindFailed)
       /\ last'.op = "lookupReturn"
             => /\ lk.pc = "done"
                /\ last'.ok <=> lk.result # FindFailed
                /\ ~last'.ok => last'.addr = NoAddr]_vars

\* find has used up its budget and gives the sentinel
C15_BudgetUsedUp ==
    lk.pc = "done" /\ lk.i = maxSteps /\ lk.result = FindFailed

(* ---- C16 --------------------------------------------------------- *)
\* C16: after NewNode and createChord the predecessor is empty,
\* successors[0] is the node's own address, every other successor slot is
\* empty, every finger address is the node's own address, and the first
\* fixFingers execution targets slot 0.
C16_CreatorState ==
    last.op = "createChord" =>
        LET n == last.node
        IN  /\ Predecessor[n] = NoAddr
            /\ Successors[n][1] = n
            /\ \A i \in 2 .. SuccLen : Successors[n][i] = NoAddr
            /\ \A i \in 0 .. fingerTableSize - 1 : FingerTable[n][i].Address = n
            /\ advance(next[n]) = 0

\* a node has just created its ring after another one joined through it
C16_Created ==
    /\ last.op = "createChord" /\ status[last.node] = "up"
    /\ \E x \in Nodes \ {last.node} : Successors[x][1] = last.node

(* ---- C17 --------------------------------------------------------- *)
\* C17: when joinChord(seed) returns with the seed reachable, the joining
\* node has an empty predecessor and successors[0] = seed, the seed's
\* predecessor is the joining node's address, and the joining node's
\* identifier, address and finger ids are as before.
C17_JoinState ==
    [][(last'.op = "joinChord" /\ last'.ok)
          => LET n == last'.node
                 seed == last'.arg
             IN  /\ Predecessor'[n] = NoAddr
                 /\ Successors'[n][1] = seed
                 /\ Predecessor'[seed] = n
                 /\ rawHash' = rawHash
                 /\ FingerTable'[n] = FingerTable[n]]_vars

\* C17, amended: the same, for a seed other than the joining node itself;
\* a node that joins through its own address ends with itself as predecessor.
C17_JoinStateOtherSeed ==
    [][(last'.op = "joinChord" /\ last'.ok)
          => LET n == last'.node
                 seed == last'.arg
             IN  /\ Predecessor'[n] = IF seed = n THEN n ELSE NoAddr
                 /\ Successors'[n][1] = seed
                 /\ Predecessor'[seed] = n
                 /\ rawHash' = rawHash
                 /\ FingerTable'[n] = FingerTable[n]]_vars

\* a node has just joined through a running seed that had a predecessor
C17_Joined ==
    /\ last.op = "joinChord" /\ last.ok
    /\ last.arg # last.node /\ status[last.arg] = "up"
    /\ last.pre # NoAddr /\ last.pre # last.node
    /\ Predecessor[last.arg] = last.node

(* ---- C18 --------------------------------------------------------- *)
\* C18: ClientStoreFile returns an error whenever the lookup fails, the
\* StoreFileRPC call fails in transport, or the reply carries a storage
\* error; it returns success only when the target accepted the payload; and
\* when the lookup fails no StoreFileRPC is sent.
C18_StoreErrors ==
    last.op = "ClientStoreFile" =>
        /\ (last.addr = FindFailed \/ last.callErr \/ last.replyErr) => ~last.ok
        /\ last.ok => (last.sent /\ ~last.callErr /\ ~last.replyErr)
        /\ last.addr = FindFailed => ~last.sent

(* ---- C19 --------------------------------------------------------- *)
\* C19: once the listener is bound, no failed RPC, unreachable peer, empty
\* predecessor or emptied successor list makes a node process abort or an
\* RPC handler crash.
C19_NoCrash == \A n \in Nodes : status[n] # "panic"

(* ---- C20 --------------------------------------------------------- *)
\* this step starts an execution of task e on node n
Starts(n, e) ==
    \/ e = "stabilize" /\ last'.op = "stabilize" /\ last'.node = n
    \/ e = "checkPredecessor" /\ last'.op = "checkPredecessor" /\ last'.node = n
    \/ e = "fixFingers" /\ \E t \in 1 .. MaxFF :
                              ff[n][t].pc = "idle" /\ ff'[n][t].pc = "find"

findSuccessorArgs(n, requestID) ==
    <<Identifier(n), requestID, strHash(GetName(Successors[n][1]))>>

\* the start, elt and end that notify(address) on n hands to between
notifyArgs(n, pred, address) ==
    <<strHash(GetName(pred)), strHash(GetName(address)), strHash(n)>>

\* every component is an identifier of [0, 2^m)
Reduced(t) == \A k \in 1 .. Len(t) : t[k] \in Ids

\* C21: every identifier handed to between as start, elt or end by
\* findSuccessor, closePrecedingNode, stabilize, notify and fixFingers, and
\* every key handed to find by ClientLookUp, lies in [0, 2^m).
C21_ReducedIds ==
    /\ lk.pc # "idle" => lk.id \in Ids
    /\ last.op = "FindSuccessorRPC"
          => Reduced(findSuccessorArgs(last.node, last.id))
    /\ (Notified /\ last.pre # NoAddr)
          => Reduced(notifyArgs(last.arg, last.pre, last.node))

(* ---- C22 --------------------------------------------------------- *)
\* the list s shifted left by one, the last slot emptied
ShiftLeft(s) == [i \in 1 .. Len(s) |-> IF i = Len(s) THEN NoAddr ELSE s[i + 1]]

\* the list that step (i) is to leave when the successor self has failed
ShiftOrSelf(self, s) ==
    IF \A i \in 1 .. Len(s) : ShiftLeft(s)[i] = NoAddr
    THEN [ShiftLeft(s) EXCEPT ![1] = self]
    ELSE ShiftLeft(s)

\* C22: when GetSuccessorListRPC on successors[0] fails, stabilize shifts
\* the successor list left by one, and if no non-empty entry remains it sets
\* successors[0] to the node's own address within the same execution, so
\* that the remaining steps address a non-empty successors[0].
C22_FailedSuccessor ==
    [][\A n \in Nodes :
          (/\ last'.op = "stabilize" /\ last'.node = n
           /\ ~CallOK(Successors[n][1]))
              => /\ Successors'[n] =
                        adoptPredecessor(n, ShiftOrSelf(n, Successors[n])).list
                 /\ Successors'[n][1] # NoAddr]_vars

(* ---- C23 --------------------------------------------------------- *)
\* C23: in every state after createChord or joinChord, whatever stabilize
\* executions and failures of peers have happened, successors[0] of a
\* running node is a non-empty address.
C23_FirstSuccessorKnown ==
    \A n \in Nodes : status[n] = "up" => Successors[n][1] # NoAddr

(* ---- C24 --------------------------------------------------------- *)
\* C24: when GetSuccessorListRPC on successors[0] gives the list L, the
\* refresh leaves successors[0] as it is, sets successors[i+1] = L[i] for
\* every i with i+1 < r, keeps the list at r entries and writes no index
\* outside [0, r), also when L is longer or shorter than r.
C24_Refresh ==
    [][\A n \in Nodes :
          (/\ last'.op = "stabilize" /\ last'.node = n
           /\ CallOK(Successors[n][1]))
              => LET s == Successors[n]
                     L == Successors[s[1]]
                 IN  /\ ~refreshSuccessors(n).oob
                     /\ Len(Successors'[n]) = Len(s)
                     /\ Successors'[n][1] \in {s[1], Predecessor[s[1]]}
                     /\ \A i \in 2 .. Len(s) :
                           i - 1 <= Len(L) => Successors'[n][i] = L[i - 1]]_vars

(* ---- C25 --------------------------------------------------------- *)
\* C25: when GetPredecessorRPC on successors[0] gives a non-empty address
\* p, stabilize makes p the new successors[0] exactly when p's identifier
\* lies strictly on the arc (self.identifier, id(successors[0])); when the
\* call fails or reports an empty predecessor, successors[0] stays.
C25_Adoption ==
    [][\A n \in Nodes :
          (last'.op = "stabilize" /\ last'.node = n)
              => LET succ == refreshSuccessors(n).list[1]
                     p == IF CallOK(succ) THEN Predecessor[succ] ELSE NoAddr
                 IN  Successors'[n][1] =
                        IF p # NoAddr /\ OnArc(Identifier(n), Identifier(p),
                                               Identifier(succ))
                        THEN p ELSE succ]_vars

(* ---- C26 --------------------------------------------------------- *)
\* C26: every stabilize execution, whatever its GetSuccessorListRPC,
\* GetPredecessorRPC and GetNameRPC calls gave, goes on to send
\* NotifyRPC(self.address) to the successors[0] it holds after steps (i)
\* and (ii).
C26_AlwaysNotifies ==
    [][\A n \in Nodes :
          (last'.op = "stabilize" /\ last'.node = n)
              => LET r1 == refreshSuccessors(n)
                     r2 == adoptPredecessor(n, r1.list)
                 IN  /\ ~r1.oob
                     /\ ~r2.ret
                     /\ Successors'[n][1] = r2.list[1]
                     /\ CallOK(r2.list[1]) => last'.arg = r2.list[1]]_vars

(* ---- C27 --------------------------------------------------------- *)
\* an execution of fixFingers on n is in progress
FixingFingers(n) == \E t \in 1 .. MaxFF : ff[n][t].pc # "idle"

\* C27: the first fixFingers execution after NewNode refreshes slot 0; the
\* index with which a fixFingers execution is about to read or write the
\* finger table lies in [0, m), and next lies in [0, m) whenever no
\* execution is in progress and one has written before, also when
\* executions overlap.
C27_NextInRange ==
    \A n \in Nodes :
        /\ (\E t \in 1 .. MaxFF : ff[n][t].pc \in {"find", "name"})
              => InRange(next[n])
        /\ (status[n] = "up" /\ ~FixingFingers(n))
              => \/ InRange(next[n])
                 \/ next[n] = -1 /\ FingerTable[n] = initFingerTable(n)
        /\ status[n] \in {"off", "new"} => advance(next[n]) = 0

(* ---- C28 --------------------------------------------------------- *)
\* execution t is the only fixFingers execution of n in progress
Alone(n, t) ==
    /\ ff[n][t].pc # "idle"
    /\ \A u \in (1 .. MaxFF) \ {t} : ff[n][u].pc = "idle"

\* C28: without overlap, fixFingers fills in bulk only slots whose offset
\* lies on the arc (self.identifier, id(found successor)), with that
\* successor, and when an execution ends, the slot the next execution
\* resolves with findSuccessor is slot 0 after the bulk step ran past slot
\* m-1, and otherwise the slot whose offset fell outside the arc or whose
\* GetNameRPC failed; so no slot is skipped.
C28_CyclicOrder ==
    [][\A n \in Nodes : \A t \in 1 .. MaxFF :
          /\ (Alone(n, t) /\ ff'[n][t].pc = "idle" /\ status'[n] = "up")
                => advance(next'[n]) = IF ff[n][t].pc = "loop" THEN 0 ELSE next[n]
          /\ (Alone(n, t) /\ ff[n][t].pc = "name" /\ ff'[n][t].pc = "loop")
                => /\ FingerTable'[n][next[n]] =
                          [Id |-> BytesOf(fingerEntry(n, next[n])),
                           Address |-> ff[n][t].res]
                   /\ OnArc(Identifier(n), fingerEntry(n, next[n]),
                            Identifier(ff[n][t].res))]_vars

(* ---- C29 --------------------------------------------------------- *)
\* the finger slots of n, 1 to m-1, whose node has its identifier strictly
\* on the arc (n.identifier, id)
Preceding(n, id) ==
    {i \in 1 .. fingerTableSize - 1 :
        LET f == FingerTable[n][i].Address
        IN  f \in Nodes /\ f # n /\ OnArc(Identifier(n), Identifier(f), id)}

\* C29: closePrecedingNode(id) returns the address of the first finger,
\* from slot m-1 down to slot 1, whose node identifier lies strictly on the
\* arc (self.identifier, id), a finger whose identifier equals id and a
\* finger that is the node itself being left out, and successors[0] when no
\* finger qualifies.
C29_ClosestPreceding ==
    last.op = "closePrecedingNode" =>
        LET n == last.node
            hits == Preceding(n, last.id)
        IN  last.addr =
               IF hits = {} THEN Successors[n][1]
               ELSE FingerTable[n][CHOOSE i \in hits : \A j \in hits : j <= i].Address

(* ---- C30 --------------------------------------------------------- *)
\* C30: when checkPredecessor has read predecessor p and found it
\* unreachable, and a notify or SetPredecessorRPC has replaced the
\* predecessor by a reachable node q before checkPredecessor writes, the
\* predecessor is still q after checkPredecessor has finished.
C30_ValidatedClear ==
    [][\A n \in Nodes :
          (/\ last'.op = "checkPredecessorCommit" /\ last'.node = n
           /\ cp[n].err
           /\ Predecessor[n] # cp[n].pred
           /\ CallOK(Predecessor[n]))
              => Predecessor'[n] = Predecessor[n]]_vars

(* ---- C31 --------------------------------------------------------- *)
\* C31: overlapping stabilize executions of a node leave a state that
\* running them one after the other can leave; when two of them have seen
\* the same successors[0] fail, the list is shifted by one position in
\* total: the execution that finds the failed entry already shifted away,
\* with a live successors[0] in its place, shifts no more.
C31_ShiftOnce ==
    [][\A n \in Nodes : \A t \in 1 .. MaxStab :
          (/\ st[n][t].pc = "called" /\ st'[n][t].pc = "idle"
           /\ status'[n] = "up"
           /\ st[n][t].err
           /\ Successors[n][1] # st[n][t].target
           /\ CallOK(Successors[n][1]))
              => Successors'[n] = adoptPredecessor(n, Successors[n]).list]_vars

(* ---- C32 --------------------------------------------------------- *)
\* the handler of x is between two of its outbound calls
Handling(x) == srv[x].pc # "idle"

\* the handler of x has just sent its reply
Replied(x) == last.op = "reply" /\ last.node = x

\* C32: with the processes alive, a handler that issues outbound calls
\* (NotifyRPC fetching names with GetNameRPC, FindSuccessorRPC called by
\* fixFingers on the node's own address and fetching a name) always comes
\* to its reply, also while two nodes handle each other's NotifyRPC.
C32_HandlersComplete ==
    \A x \in {"A", "B"} : [](Handling(x) => <>Replied(x))

====
